---- MODULE Spec2Model ----
(***************************************************************************)
(* Model of scripts/generate_docs_config.py: the sitemap resolver          *)
(* (gather_urls / _parse_sitemap / _iter_xml_text), the filename mapper    *)
(* (build_mapping / _url_to_filename / _slugify_segment) and main.         *)
(*                                                                         *)
(* A Python str is a sequence of one-character strings, so that prefix     *)
(* tests, lower(), strip(), split(), re.sub() and sorting are computed     *)
(* character by character as the interpreter computes them.                *)
(***************************************************************************)
EXTENDS Integers, Sequences, FiniteSets, TLC

VARIABLES pc, source, prefixes, world, heap, stack, expanded, urls, err,
          todo, filenames, mapping, written, doc, parsed

vars == <<pc, source, prefixes, world, heap, stack, expanded, urls, err,
          todo, filenames, mapping, written, doc, parsed>>

(***************************************************************************)
(* Bounds of the model.                                                    *)
(***************************************************************************)
\* loc entries in all the documents of one sitemap graph
MaxLocs == 4
\* depth of the gather_urls recursion the model follows
MaxDepth == 6
\* length of the URL list handed to build_mapping
MaxUrls == 3
\* child elements of one XML element
MaxKids == 2

(***************************************************************************)
(* Python str primitives.                                                  *)
(***************************************************************************)
\* the characters of the model in code point order
Ascii == <<" ", "#", "-", ".", "/",
           "0", "1", "2", "3", "4", "5", "6", "7", "8", "9", ":",
           "A", "B", "C", "D", "E", "F", "G", "H", "I", "J", "K", "L", "M",
           "N", "O", "P", "Q", "R", "S", "T", "U", "V", "W", "X", "Y", "Z",
           "_",
           "a", "b", "c", "d", "e", "f", "g", "h", "i", "j", "k", "l", "m",
           "n", "o", "p", "q", "r", "s", "t", "u", "v", "w", "x", "y", "z",
           "{", "}">>

Code(c) == CHOOSE i \in 1..Len(Ascii) : Ascii[i] = c

UpperAZ == SubSeq(Ascii, 17, 42)
LowerAZ == SubSeq(Ascii, 44, 69)
Digit09 == SubSeq(Ascii, 6, 15)

Range(s) == {s[i] : i \in 1..Len(s)}

\* str.lower() of one character
LowerChar(c) ==
    IF \E i \in 1..26 : UpperAZ[i] = c
    THEN LowerAZ[CHOOSE i \in 1..26 : UpperAZ[i] = c]
    ELSE c

\* str.lower()
Lower(s) == [i \in 1..Len(s) |-> LowerChar(s[i])]

\* str.startswith(p)
StartsWith(s, p) == Len(p) <= Len(s) /\ SubSeq(s, 1, Len(p)) = p

\* str.endswith(p)
EndsWith(s, p) ==
    Len(p) <= Len(s) /\ SubSeq(s, Len(s) - Len(p) + 1, Len(s)) = p

RECURSIVE LStrip(_, _)
LStrip(s, cs) ==
    IF s # <<>> /\ Head(s) \in cs THEN LStrip(Tail(s), cs) ELSE s

RECURSIVE RStrip(_, _)
RStrip(s, cs) ==
    IF s # <<>> /\ s[Len(s)] \in cs
    THEN RStrip(SubSeq(s, 1, Len(s) - 1), cs)
    ELSE s

\* str.strip(chars)
Strip(s, cs) == RStrip(LStrip(s, cs), cs)

Whitespace == {" "}

\* index of the first occurrence of a character of cs in s, 0 when none
FindAny(s, cs) ==
    IF \E i \in 1..Len(s) : s[i] \in cs
    THEN CHOOSE i \in 1..Len(s) :
            s[i] \in cs /\ \A j \in 1..(i - 1) : s[j] \notin cs
    ELSE 0

\* str.split(sep) for a one-character separator
RECURSIVE Split(_, _)
Split(s, sep) ==
    LET cut(i) ==
            IF i = 0 THEN <<s>>
            ELSE <<SubSeq(s, 1, i - 1)>>
                    \o Split(SubSeq(s, i + 1, Len(s)), sep)
    IN  cut(FindAny(s, {sep}))

\* sep.join(parts)
RECURSIVE Join(_, _)
Join(parts, sep) ==
    IF parts = <<>> THEN <<>>
    ELSE IF Len(parts) = 1 THEN parts[1]
    ELSE parts[1] \o sep \o Join(Tail(parts), sep)

\* str(n) for n >= 0
RECURSIVE IntToStr(_)
IntToStr(n) ==
    IF n < 10 THEN <<Digit09[n + 1]>>
    ELSE IntToStr(n \div 10) \o <<Digit09[(n % 10) + 1]>>

\* a < b for str: code point by code point, a proper prefix is smaller
RECURSIVE StrLess(_, _)
StrLess(a, b) ==
    IF b = <<>> THEN FALSE
    ELSE IF a = <<>> THEN TRUE
    ELSE IF Head(a) = Head(b) THEN StrLess(Tail(a), Tail(b))
    ELSE Code(Head(a)) < Code(Head(b))

RECURSIVE SortSet(_)
SortSet(S) ==
    IF S = {} THEN <<>>
    ELSE LET least(m) == <<m>> \o SortSet(S \ {m})
         IN  least(CHOOSE x \in S : \A y \in S \ {x} : StrLess(x, y))

\* sorted(set(xs))
SortedSet(xs) == SortSet(Range(xs))

(***************************************************************************)
(* urllib.parse.urlparse, restricted to what _url_to_filename reads: path  *)
(* and fragment.  The URLs of the model hold no '?' and no ';'.            *)
(***************************************************************************)
SchemeChars == Range(LowerAZ) \cup Range(UpperAZ) \cup Range(Digit09)
                 \cup {"+", "-", "."}

\* the URL with its scheme and the ':' removed
AfterScheme(url) ==
    LET cut(i) ==
            IF /\ i > 1
               /\ url[1] \in Range(LowerAZ) \cup Range(UpperAZ)
               /\ \A j \in 1..(i - 1) : url[j] \in SchemeChars
            THEN SubSeq(url, i + 1, Len(url))
            ELSE url
    IN  cut(FindAny(url, {":"}))

\* then with '//' and the network location removed
AfterNetloc(rest) ==
    LET cut(r, i) == IF i = 0 THEN <<>> ELSE SubSeq(r, i, Len(r))
        from(r)   == cut(r, FindAny(r, {"/", "#"}))
    IN  IF StartsWith(rest, <<"/", "/">>)
        THEN from(SubSeq(rest, 3, Len(rest)))
        ELSE rest

\* the path and the fragment of what follows the network location
PathAndFragment(rest) ==
    LET cut(i) ==
            IF i = 0
            THEN [path |-> rest, fragment |-> <<>>]
            ELSE [path     |-> SubSeq(rest, 1, i - 1),
                  fragment |-> SubSeq(rest, i + 1, Len(rest))]
    IN  cut(FindAny(rest, {"#"}))

UrlParse(url) == PathAndFragment(AfterNetloc(AfterScheme(url)))

(***************************************************************************)
(* _slugify_segment and _url_to_filename.                                  *)
(***************************************************************************)
SlugChars == Range(LowerAZ) \cup Range(Digit09)

\* re.sub(r"[^a-z0-9]+", "-", s): every maximal run becomes one hyphen
RECURSIVE SubRuns(_)
SubRuns(s) ==
    IF s = <<>> THEN <<>>
    ELSE IF Head(s) \in SlugChars THEN <<Head(s)>> \o SubRuns(Tail(s))
    ELSE <<"-">> \o SubRuns(LStrip(s, Range(Ascii) \ SlugChars))

Section == <<"s", "e", "c", "t", "i", "o", "n">>
Index   == <<"i", "n", "d", "e", "x">>
DotMd   == <<".", "m", "d">>

\* lines 98-100
_slugify_segment(segment) ==
    LET orSection(slug) == IF slug = <<>> THEN Section ELSE slug
    IN  orSection(Strip(SubRuns(Lower(segment)), {"-"}))

\* lines 105-106: the slugs of the non-empty parts of the path
PathSegments(path) ==
    LET slugs(parts) ==
            [i \in 1..Len(parts) |-> _slugify_segment(parts[i])]
    IN  slugs(SelectSeq(Split(Strip(path, {"/"}), "/"),
                        LAMBDA part : part # <<>>))

\* lines 107-108
OrIndex(segments) == IF segments = <<>> THEN <<Index>> ELSE segments

\* lines 109-110
WithFragment(segments, fragment) ==
    IF fragment # <<>>
    THEN Append(segments, _slugify_segment(fragment))
    ELSE segments

\* lines 104-111: the stem of a URL
Stem(url) ==
    LET stemOf(p) ==
            Join(WithFragment(OrIndex(PathSegments(p.path)), p.fragment),
                 <<"_", "_">>)
    IN  stemOf(UrlParse(url))

\* f"{stem}_{counter}.md"
Suffixed(stem, counter) == stem \o <<"_">> \o IntToStr(counter) \o DotMd

\* existing.get(candidate, 0)
DictGet(existing, key) ==
    IF key \in DOMAIN existing THEN existing[key] ELSE 0

\* faulty variant: the loop body runs once, without the membership test
FreeCounter_Once(stem, counter, existing) == counter + 1

\* faulty variant: the counter is not incremented before the first suffix is tried
RECURSIVE FreeCounter_FromCounter(_, _, _)
FreeCounter_FromCounter(stem, counter, existing) ==
    IF Suffixed(stem, counter) \notin DOMAIN existing
    THEN counter
    ELSE FreeCounter_FromCounter(stem, counter + 1, existing)

\* lines 115-119: the while loop, entered with the counter read from the dict
RECURSIVE FreeCounter(_, _, _)
FreeCounter(stem, counter, existing) ==
    IF Suffixed(stem, counter + 1) \notin DOMAIN existing
    THEN counter + 1
    ELSE FreeCounter(stem, counter + 1, existing)

\* the filename _url_to_filename returns and the dict it leaves behind
\* line 120: existing[candidate] = counter or 1
Assign(existing, candidate, counter) ==
    [name     |-> candidate,
     existing |-> [k \in DOMAIN existing \cup {candidate} |->
                      IF k # candidate THEN existing[k]
                      ELSE IF counter # 0 THEN counter ELSE 1]]

\* lines 112-120, from the stem on
Disambiguate(stem, existing) ==
    LET suffixed(counter) ==
            Assign(existing, Suffixed(stem, counter), counter)
        choose(counter) ==
            IF counter # 0
            THEN suffixed(FreeCounter(stem, counter, existing))
            ELSE Assign(existing, stem \o DotMd, counter)
    IN  choose(DictGet(existing, stem \o DotMd))

\* lines 103-121: the filename returned and the dict left behind
_url_to_filename(url, existing) == Disambiguate(Stem(url), existing)

RECURSIVE SeqsUpTo(_, _)
SeqsUpTo(S, n) ==
    IF n = 0 THEN {<<>>}
    ELSE LET shorter == SeqsUpTo(S, n - 1)
         IN  shorter \cup {Append(s, x) : s \in shorter, x \in S}

(***************************************************************************)
(* XML documents.  An element is [tag, text, kids]; a fetch yields either  *)
(* nothing (the location cannot be read) or a payload: gzip-compressed or  *)
(* not, well-formed XML or not, and the tree the XML text denotes.         *)
(***************************************************************************)
Elem(tag, text, kids) == [tag |-> tag, text |-> text, kids |-> kids]

NoElem == Elem(<<>>, <<>>, <<>>)

Missing == [found |-> FALSE, gzip |-> FALSE, wellformed |-> FALSE,
            root |-> NoElem]

Payload(gz, root) == [found |-> TRUE, gzip |-> gz, wellformed |-> TRUE,
                      root |-> root]

BadXml == [found |-> TRUE, gzip |-> FALSE, wellformed |-> FALSE,
           root |-> NoElem]

\* Element.iter(): the element, then its descendants, in document order
RECURSIVE Iter(_)
RECURSIVE IterAll(_)
Iter(e) == <<e>> \o IterAll(e.kids)
IterAll(es) == IF es = <<>> THEN <<>> ELSE Iter(Head(es)) \o IterAll(Tail(es))

\* faulty variant: the text is yielded as it stands in the document
YieldOf_NoStrip(elem, tag_suffix) ==
    IF EndsWith(Lower(elem.tag), tag_suffix) /\ elem.text # <<>>
    THEN <<elem.text>>
    ELSE <<>>

\* lines 73-76 for one element: what it yields
YieldOf(elem, tag_suffix) ==
    LET yield(text) == IF text # <<>> THEN <<text>> ELSE <<>>
    IN  IF EndsWith(Lower(elem.tag), tag_suffix) /\ elem.text # <<>>
        THEN yield(Strip(elem.text, Whitespace))
        ELSE <<>>

RECURSIVE YieldAll(_, _)
YieldAll(elems, tag_suffix) ==
    IF elems = <<>> THEN <<>>
    ELSE YieldOf(Head(elems), tag_suffix) \o YieldAll(Tail(elems), tag_suffix)

\* lines 71-76
_iter_xml_text(root, tag_suffix) == YieldAll(Iter(root), tag_suffix)

T_loc          == <<"l", "o", "c">>
T_urlset       == <<"u", "r", "l", "s", "e", "t">>
T_sitemapindex == <<"s", "i", "t", "e", "m", "a", "p", "i", "n", "d", "e", "x">>

NoResult == [err |-> "none", kind |-> "none", locs |-> <<>>]

Raise(kind) == [err |-> kind, kind |-> "none", locs |-> <<>>]

\* lines 55-68 and 80-83: any failure to read is a SitemapError
_read_bytes(outcome) == outcome.found

\* lines 85-88: ET.fromstring; gzip bytes (1F 8B ...) are not XML text
FromStringParses(raw) == ~raw.gzip /\ raw.wellformed

\* lines 90-95: the kind the lower-cased root tag stands for
KindOf(tag) ==
    IF EndsWith(tag, T_sitemapindex) THEN "index"
    ELSE IF EndsWith(tag, T_urlset) THEN "urlset"
    ELSE "unsupported"

\* lines 80-95: the SitemapError _parse_sitemap raises, "none" when none
ErrorOf(outcome) ==
    IF ~_read_bytes(outcome) THEN "fetch"
    ELSE IF ~FromStringParses(outcome) THEN "xml"
    ELSE IF KindOf(Lower(outcome.root.tag)) = "unsupported" THEN "tag"
    ELSE "none"

\* lines 79-95, given what fetching the location yields
_parse_sitemap(outcome) ==
    IF ErrorOf(outcome) # "none" THEN Raise(ErrorOf(outcome))
    ELSE [err  |-> "none",
          kind |-> KindOf(Lower(outcome.root.tag)),
          locs |-> _iter_xml_text(outcome.root, T_loc)]

\* the variables of the resolver, the mapper and the parser, at rest
ResolverIdle ==
    /\ source = <<>> /\ prefixes = {} /\ world = <<>> /\ heap = <<>>
    /\ stack = <<>> /\ expanded = <<>> /\ err = "none" /\ written = <<>>
ParserIdle == doc = Missing /\ parsed = NoResult
MapperIdle == todo = <<>> /\ filenames = <<>> /\ mapping = <<>>

(***************************************************************************)
(* The documents handed to _parse_sitemap in the parser's specification.   *)
(***************************************************************************)
Ns(tag) == <<"{", "n", "}">> \o tag

T_url  == <<"u", "r", "l">>
T_html == <<"h", "t", "m", "l">>
T_Loc  == <<"L", "o", "c">>
T_xloc == <<"x", "l", "o", "c">>

RootTags == {T_urlset, Ns(T_sitemapindex), T_html}
LeafTags == {T_loc, Ns(T_loc), T_Loc, T_xloc}
Texts    == {<<>>, <<" ">>, <<" ", "u", " ">>}

Leaves  == {Elem(t, x, <<>>) : t \in LeafTags, x \in Texts}
Wrapped == {Elem(T_url, <<>>, k) : k \in SeqsUpTo(Leaves, 1)}

ParseRoots ==
    {Elem(t, <<>>, k) : t \in RootTags,
                        k \in SeqsUpTo(Leaves \cup Wrapped, MaxKids)}

ParseDocs ==
    {Missing, BadXml} \cup {Payload(FALSE, r) : r \in ParseRoots}
        \cup {Payload(TRUE, r) : r \in ParseRoots}

ParseInit ==
    /\ pc = "parse_call"
    /\ doc \in ParseDocs
    /\ parsed = NoResult
    /\ urls = <<>>
    /\ MapperIdle /\ ResolverIdle

\* lines 92 and 94: the pair is returned
ParseReturn ==
    /\ pc = "parse_call"
    /\ ErrorOf(doc) = "none"
    /\ parsed' = _parse_sitemap(doc)
    /\ pc' = "parse_done"
    /\ UNCHANGED <<source, prefixes, world, heap, stack, expanded, urls, err,
                   todo, filenames, mapping, written, doc>>

\* lines 83, 88 and 95: a SitemapError is raised
ParseRaise ==
    /\ pc = "parse_call"
    /\ ErrorOf(doc) # "none"
    /\ err' = _parse_sitemap(doc).err
    /\ pc' = "parse_failed"
    /\ UNCHANGED <<source, prefixes, world, heap, stack, expanded, urls,
                   todo, filenames, mapping, written, doc, parsed>>

ParseNext == ParseReturn \/ ParseRaise

SpecParse == ParseInit /\ [][ParseNext]_vars

(***************************************************************************)
(* build_mapping.  An OrderedDict is a sequence of <<key, value>> pairs in *)
(* insertion order.                                                        *)
(***************************************************************************)
Keys(od)   == [i \in 1..Len(od) |-> od[i][1]]
Values(od) == [i \in 1..Len(od) |-> od[i][2]]

\* od[key] = value
OdSet(od, key, value) ==
    IF \E i \in 1..Len(od) : od[i][1] = key
    THEN [i \in 1..Len(od) |->
            IF od[i][1] = key THEN <<key, value>> ELSE od[i]]
    ELSE Append(od, <<key, value>>)

\* faulty variant: the URLs are taken as given, neither deduplicated nor sorted
IterationOrder_AsGiven(xs) == xs

\* line 149: the sequence the for loop walks
IterationOrder(xs) == SortedSet(xs)

\* line 150: one turn of the for loop
MapStep(st) ==
    LET assigned(url, r) ==
            [todo      |-> Tail(st.todo),
             filenames |-> r.existing,
             mapping   |-> OdSet(st.mapping, url, r.name)]
        turn(url) == assigned(url, _url_to_filename(url, st.filenames))
    IN  turn(Head(st.todo))

RECURSIVE MapLoop(_)
MapLoop(st) == IF st.todo = <<>> THEN st ELSE MapLoop(MapStep(st))

\* lines 146-151
build_mapping(xs) ==
    MapLoop([todo |-> IterationOrder(xs), filenames |-> <<>>,
             mapping |-> <<>>]).mapping

(***************************************************************************)
(* The URLs handed to build_mapping in the mapper's specification.         *)
(***************************************************************************)
Https  == <<"h", "t", "t", "p", "s", ":", "/", "/">>
HostX  == Https \o <<"x">>
U_ab   == HostX \o <<"/", "a", "/", "b">>
U_a_b  == HostX \o <<"/", "a", "-", "b">>
U_abs  == HostX \o <<"/", "a", "/", "b", "/">>
U_afb  == HostX \o <<"/", "a", "#", "b">>
U_Ab   == HostX \o <<"/", "A", "/", "b">>
U_yab  == Https \o <<"y", "/", "a", "/", "b">>
U_root == HostX \o <<"/">>
U_host == HostX
U_idx  == HostX \o <<"/", "i", "n", "d", "e", "x">>
U_us   == HostX \o <<"/", "_">>
U_a2   == HostX \o <<"/", "a", "_", "2">>
U_rel  == <<"a", "/", "b">>

UrlPool == {U_ab, U_a_b, U_abs, U_afb, U_Ab, U_yab, U_root, U_host, U_idx,
            U_us, U_a2, U_rel}

MapInit ==
    /\ pc = "map_call"
    /\ urls \in SeqsUpTo(UrlPool, MaxUrls)
    /\ MapperIdle /\ ResolverIdle /\ ParserIdle

\* lines 147-149: the dictionaries are created and the URLs sorted
MapEnter ==
    /\ pc = "map_call"
    /\ pc' = "map_loop"
    /\ todo' = IterationOrder(urls)
    /\ filenames' = <<>>
    /\ mapping' = <<>>
    /\ UNCHANGED <<source, prefixes, world, heap, stack, expanded, urls, err,
                   written, doc, parsed>>

\* line 150
MapTurn ==
    /\ pc = "map_loop"
    /\ todo # <<>>
    /\ LET st == MapStep([todo |-> todo, filenames |-> filenames,
                          mapping |-> mapping])
       IN  /\ todo' = st.todo
           /\ filenames' = st.filenames
           /\ mapping' = st.mapping
    /\ UNCHANGED <<pc, source, prefixes, world, heap, stack, expanded, urls,
                   err, written, doc, parsed>>

\* line 151
MapReturn ==
    /\ pc = "map_loop"
    /\ todo = <<>>
    /\ pc' = "map_done"
    /\ UNCHANGED <<source, prefixes, world, heap, stack, expanded, urls, err,
                   todo, filenames, mapping, written, doc, parsed>>

MapNext == MapEnter \/ MapTurn \/ MapReturn

SpecMap == MapInit /\ [][MapNext]_vars

(***************************************************************************)
(* gather_urls and main.                                                   *)
(*                                                                         *)
(* The recursion is an explicit stack of the frames that are inside the    *)
(* loop of line 137.  A visited set is an object of the heap, and a frame  *)
(* holds a reference to it (0 is None), so that `visited or set()` is the  *)
(* rebinding it is in Python.  What a location yields when fetched is      *)
(* chosen the first time it is fetched and kept in world.                  *)
(***************************************************************************)
\* faulty variant: every call starts from a set of its own
VisitedOrNew_Fresh(h, ref) == [heap |-> Append(h, {}), ref |-> Len(h) + 1]

\* line 129: visited = visited or set()
VisitedOrNew(h, ref) ==
    IF ref = 0 \/ h[ref] = {}
    THEN [heap |-> Append(h, {}), ref |-> Len(h) + 1]
    ELSE [heap |-> h, ref |-> ref]

\* faulty variant: the membership test is dropped
AlreadyVisited_Never(location, visited) == FALSE

\* line 130: source in visited
AlreadyVisited(location, visited) == location \in visited

\* faulty variant: all() where the code has any()
Accepts_All(entry, allowed_prefixes) ==
    \A prefix \in allowed_prefixes : StartsWith(entry, prefix)

\* line 141
Accepts(entry, allowed_prefixes) ==
    \E prefix \in allowed_prefixes : StartsWith(entry, prefix)

\* lines 140-142
FilterEntries(entries, allowed_prefixes) ==
    SelectSeq(entries, LAMBDA e : Accepts(e, allowed_prefixes))

\* faulty variant: an empty result is not an error
NoUrls_Never(xs) == FALSE

\* line 192: not urls
NoUrls(xs) == xs = <<>>

\* lines 157-158: the lines of the output file
write_mapping(od) == [i \in 1..Len(od) |-> od[i][1] \o <<" ">> \o od[i][2]]

\* the call about to be made: by main (line 191) or by the loop (line 138)
Top == stack[Len(stack)]

HasPending ==
    \/ pc = "main"
    \/ pc = "gather" /\ stack # <<>> /\ Top.i <= Len(Top.entries)

Pending ==
    IF pc = "main"
    THEN [loc |-> source, ref |-> 0, base |-> <<>>]
    ELSE [loc |-> Top.entries[Top.i], ref |-> Top.vis, base |-> Top.source]

\* a call returns result: to main, or into urls.extend of the caller
Deliver(result) ==
    IF stack = <<>>
    THEN /\ urls' = result
         /\ pc' = "gathered"
         /\ stack' = stack
    ELSE /\ stack' = [stack EXCEPT ![Len(stack)] =
                         [@ EXCEPT !.urls = @ \o result, !.i = @ + 1]]
         /\ pc' = "gather"
         /\ urls' = urls

(***************************************************************************)
(* The sitemap graphs of the resolver's specification.                     *)
(***************************************************************************)
L_root  == HostX \o <<"/", "s", "/", "i">>
L_docs  == HostX \o <<"/", "d", "/", "m">>
L_rel   == <<"c">>
U_da    == HostX \o <<"/", "d", "/", "a">>
U_bp    == HostX \o <<"/", "b", "/", "p">>
P_d     == HostX \o <<"/", "d", "/">>
P_b     == HostX \o <<"/", "b", "/">>

IndexLocs == {L_root, L_docs, L_rel}
LeafUrls  == {U_da, U_bp}
PrefixChoices == {{P_d}, {P_d, P_b}}

T_sitemap == <<"s", "i", "t", "e", "m", "a", "p">>

\* <wrapper><loc>text</loc></wrapper> for every text, under the root
Listing(rootTag, wrapper, texts) ==
    Elem(Ns(rootTag), <<>>,
         [i \in 1..Len(texts) |->
            Elem(Ns(wrapper), <<>>, <<Elem(Ns(T_loc), texts[i], <<>>)>>)])

Min(a, b) == IF a < b THEN a ELSE b

\* what a location may yield, with at most n loc entries
DocChoices(n) ==
    {Missing, BadXml, Payload(FALSE, Elem(T_html, <<>>, <<>>))}
      \cup {Payload(FALSE, Listing(T_sitemapindex, T_sitemap, e)) :
                e \in SeqsUpTo(IndexLocs, n)}
      \cup {Payload(FALSE, Listing(T_urlset, T_url, e)) :
                e \in SeqsUpTo(LeafUrls, n)}
      \cup {Payload(TRUE, Listing(T_urlset, T_url, e)) :
                e \in SeqsUpTo({U_da}, Min(n, 1)) \ {<<>>}}

LocsOf(outcome) == Len(_iter_xml_text(outcome.root, T_loc))

RECURSIVE SumLocs(_, _)
SumLocs(w, S) ==
    IF S = {} THEN 0
    ELSE LET with(l) == LocsOf(w[l]) + SumLocs(w, S \ {l})
         IN  with(CHOOSE x \in S : TRUE)

DocChoicesTable == [n \in 0..MaxLocs |-> DocChoices(n)]

\* a location yields what it yielded before; a new one, any document that
\* keeps the graph within MaxLocs entries
Outcomes(location) ==
    IF location \in DOMAIN world THEN {world[location]}
    ELSE DocChoicesTable[MaxLocs - SumLocs(world, DOMAIN world)]

Remember(location, outcome) ==
    [l \in DOMAIN world \cup {location} |->
        IF l = location THEN outcome ELSE world[l]]

Init ==
    /\ pc = "main"
    /\ source = L_root
    /\ prefixes \in PrefixChoices
    /\ world = <<>> /\ heap = <<>> /\ stack = <<>> /\ expanded = <<>>
    /\ urls = <<>> /\ err = "none" /\ written = <<>>
    /\ MapperIdle /\ ParserIdle

\* lines 129-131: the location is in the visited set, [] is returned
CallSkip ==
    /\ HasPending
    /\ LET v == VisitedOrNew(heap, Pending.ref)
       IN  /\ AlreadyVisited(Pending.loc, v.heap[v.ref])
           /\ heap' = v.heap
    /\ Deliver(<<>>)
    /\ UNCHANGED <<source, prefixes, world, expanded, err, todo, filenames,
                   mapping, written, doc, parsed>>

\* lines 129-134 for a call that goes on to _parse_sitemap
Expand(outcome) ==
    LET v == VisitedOrNew(heap, Pending.ref)
    IN  /\ ~AlreadyVisited(Pending.loc, v.heap[v.ref])
        /\ heap' = [v.heap EXCEPT ![v.ref] = @ \cup {Pending.loc}]
        /\ world' = Remember(Pending.loc, outcome)
        /\ expanded' = Append(expanded, [loc  |-> Pending.loc,
                                         base |-> Pending.base,
                                         text |-> Pending.loc])

\* line 134 raises: the SitemapError leaves every frame and main
CallRaise ==
    /\ HasPending
    /\ \E outcome \in Outcomes(Pending.loc) :
          /\ ErrorOf(outcome) # "none"
          /\ Expand(outcome)
          /\ err' = _parse_sitemap(outcome).err
    /\ pc' = "failed"
    /\ stack' = <<>>
    /\ UNCHANGED <<source, prefixes, urls, todo, filenames, mapping, written,
                   doc, parsed>>

\* lines 139-143: a urlset; the accepted entries are returned
CallUrlset ==
    /\ HasPending
    /\ \E outcome \in Outcomes(Pending.loc) :
          /\ ErrorOf(outcome) = "none"
          /\ KindOf(Lower(outcome.root.tag)) = "urlset"
          /\ Expand(outcome)
          /\ Deliver(FilterEntries(_parse_sitemap(outcome).locs, prefixes))
    /\ UNCHANGED <<source, prefixes, err, todo, filenames, mapping, written,
                   doc, parsed>>

\* lines 136-137: an index; the loop over its entries starts
CallIndex ==
    /\ HasPending
    /\ Len(stack) < MaxDepth
    /\ \E outcome \in Outcomes(Pending.loc) :
          /\ ErrorOf(outcome) = "none"
          /\ KindOf(Lower(outcome.root.tag)) = "index"
          /\ Expand(outcome)
          /\ stack' = Append(stack,
                 [source  |-> Pending.loc,
                  vis     |-> VisitedOrNew(heap, Pending.ref).ref,
                  entries |-> _parse_sitemap(outcome).locs,
                  i       |-> 1,
                  urls    |-> <<>>])
    /\ pc' = "gather"
    /\ UNCHANGED <<source, prefixes, urls, err, todo, filenames, mapping,
                   written, doc, parsed>>

\* line 143 of an index frame: the loop is over, urls is returned
Return ==
    /\ pc = "gather"
    /\ stack # <<>>
    /\ Top.i > Len(Top.entries)
    /\ LET result == Top.urls
           rest   == SubSeq(stack, 1, Len(stack) - 1)
       IN  IF rest = <<>>
           THEN /\ urls' = result
                /\ pc' = "gathered"
                /\ stack' = rest
           ELSE /\ stack' = [rest EXCEPT ![Len(rest)] =
                                [@ EXCEPT !.urls = @ \o result, !.i = @ + 1]]
                /\ pc' = "gather"
                /\ urls' = urls
    /\ UNCHANGED <<source, prefixes, world, heap, expanded, err, todo,
                   filenames, mapping, written, doc, parsed>>

\* lines 192-195
MainRaise ==
    /\ pc = "gathered"
    /\ NoUrls(urls)
    /\ pc' = "failed"
    /\ err' = "empty"
    /\ UNCHANGED <<source, prefixes, world, heap, stack, expanded, urls, todo,
                   filenames, mapping, written, doc, parsed>>

\* lines 197-204
MainWrite ==
    /\ pc = "gathered"
    /\ ~NoUrls(urls)
    /\ mapping' = build_mapping(urls)
    /\ written' = Append(written, write_mapping(build_mapping(urls)))
    /\ pc' = "done"
    /\ UNCHANGED <<source, prefixes, world, heap, stack, expanded, urls, err,
                   todo, filenames, doc, parsed>>

Next ==
    \/ CallSkip \/ CallRaise \/ CallUrlset \/ CallIndex \/ Return
    \/ MainRaise \/ MainWrite

Spec == Init /\ [][Next]_vars

(***************************************************************************)
(* Properties of the mapper, under SpecMap.                                *)
(***************************************************************************)
NoRepeat(xs) == \A i, j \in 1..Len(xs) : i # j => xs[i] # xs[j]

Ascending(xs) == \A i, j \in 1..Len(xs) : i < j => StrLess(xs[i], xs[j])

\* how many of the first i URLs of the mapping have the stem of the i-th
RankInStem(i) ==
    Cardinality({j \in 1..i : Stem(mapping[j][1]) = Stem(mapping[i][1])})

\* C1: after every call of _url_to_filename the URLs mapped so far are
\* distinct and so are the filenames they were given, and every filename
\* given is recorded in the registry.
C1_FilenamesDistinct ==
    /\ NoRepeat(Keys(mapping))
    /\ NoRepeat(Values(mapping))
    /\ Range(Values(mapping)) = DOMAIN filenames

\* three URLs with one stem, one of them through its fragment, all mapped
C1_ThreeShareAStem ==
    /\ pc = "map_done"
    /\ Range(Keys(mapping)) = {U_ab, U_afb, U_Ab}
    /\ \E i \in 1..Len(mapping) : mapping[i][2] = Suffixed(Stem(U_ab), 3)

\* C9: the URLs are mapped in ascending order; the first URL of a stem s is
\* given s.md and the k-th (k >= 2) is given s_k.md, so a suffix appears
\* only where an earlier URL had exactly the same stem.
C9_SuffixIsRankInStem ==
    /\ Ascending(Keys(mapping))
    /\ \A i \in 1..Len(mapping) :
          mapping[i][2] = IF RankInStem(i) = 1
                          THEN Stem(mapping[i][1]) \o DotMd
                          ELSE Suffixed(Stem(mapping[i][1]), RankInStem(i))

\* /a-b keeps a-b.md beside /a/b and /a/b/, which share a__b
C9_NearMissAndCollision ==
    /\ pc = "map_done"
    /\ Keys(mapping) = <<U_a_b, U_ab, U_abs>>
    /\ Values(mapping) = <<Stem(U_a_b) \o DotMd, Stem(U_ab) \o DotMd,
                           Suffixed(Stem(U_ab), 2)>>
    /\ Stem(U_a_b) # Stem(U_ab)

(***************************************************************************)
(* Properties of the parser, under SpecParse.                              *)
(***************************************************************************)
\* the tag without its {namespace} prefix
LocalName(tag) ==
    IF StartsWith(tag, <<"{">>)
    THEN SubSeq(tag, FindAny(tag, {"}"}) + 1, Len(tag))
    ELSE tag

HasText(elem) == Strip(elem.text, Whitespace) # <<>>

\* locs holds, in document order, the trimmed texts of the elements at the
\* positions hits of elems
ListsExactly(locs, elems, hits) ==
    /\ Len(locs) = Cardinality(hits)
    /\ \A i \in hits :
          locs[Cardinality({j \in hits : j <= i})]
             = Strip(elems[i].text, Whitespace)

Returned == pc \in {"gathered", "done"} \/ (pc = "failed" /\ err = "empty")

Fetched(l) == l \in DOMAIN world

IsKind(l, kind) ==
    Fetched(l) /\ ErrorOf(world[l]) = "none"
               /\ KindOf(Lower(world[l].root.tag)) = kind

Listed(l) == Range(_parse_sitemap(world[l]).locs)

\* the locations reachable from S through index documents
RECURSIVE Closure(_)
Closure(S) ==
    LET grow(T) == IF T = S THEN S ELSE Closure(T)
    IN  grow(S \cup UNION {Listed(l) : l \in {x \in S : IsKind(x, "index")}})

\* entries the loops of the frames 1..k have still to take
RECURSIVE Remaining(_, _)
Remaining(stk, k) ==
    IF k = 0 THEN 0
    ELSE (Len(stk[k].entries) + 1 - stk[k].i) + Remaining(stk, k - 1)

\* a measure of the work left: locations not yet visited, then entries not
\* yet taken, frames not yet left and main's last step
Variant ==
    (MaxLocs + 2) * (Cardinality(IndexLocs)
                       - Cardinality(UNION {heap[r] : r \in DOMAIN heap}))
      + Remaining(stack, Len(stack)) + Len(stack)
      + (IF pc \in {"done", "failed"} THEN 0 ELSE 1)

\* the run is at a place of the code from where it goes on
CanStep ==
    \/ pc \in {"main", "gathered"}
    \/ pc = "gather" /\ stack # <<>> /\ Len(stack) < MaxDepth

\* C2: gather_urls terminates on every graph, cycles included: every step
\* of a run lowers a measure that never falls below zero, and a run that
\* has not ended with the file written or a SitemapError can take a step
\* (the recursion never gets deeper than the locations there are).
C2_Terminates ==
    [][/\ Variant' < Variant
       /\ Variant' >= 0
       /\ pc' \notin {"done", "failed"} => CanStep']_vars

\* a run over two indexes that reference each other has ended
C2_CycleFinished ==
    /\ pc = "done"
    /\ IsKind(L_root, "index") /\ L_docs \in Listed(L_root)
    /\ IsKind(L_docs, "index") /\ L_root \in Listed(L_docs)

\* C3: the URLs returned are those listed in a urlset reachable from the
\* source through indexes that start with an allowed prefix; every
\* reachable location was fetched, whatever its own prefix.
C3_ResultIsFilteredReachable ==
    LET holdsOf(reachable) ==
            /\ reachable \subseteq DOMAIN world
            /\ Range(urls) =
                  {u \in UNION {Listed(l) :
                                  l \in {x \in reachable :
                                            IsKind(x, "urlset")}} :
                      \E prefix \in prefixes : StartsWith(u, prefix)}
    IN  Returned => holdsOf(Closure({source}))

\* a listed URL was left out, another was returned, and child sitemaps with
\* and without an allowed prefix were expanded
C3_FilteredBelowChildren ==
    /\ pc = "done"
    /\ prefixes = {P_d}
    /\ IsKind(L_docs, "urlset") /\ IsKind(L_rel, "urlset")
    /\ U_bp \in Listed(L_docs) \cup Listed(L_rel)
    /\ U_da \in Range(urls)

\* C4 as claimed: the list gather_urls returns is ascending, without
\* repeats.
C4_ResultSortedUnique == Returned => Ascending(urls)

\* C4 as amended: gather_urls returns the accepted URLs in the order of the
\* traversal, repeats included; the keys of the mapping build_mapping makes
\* of them, and the lines written, are ascending without repeats and are
\* the URLs returned.
C4_MappingSortedUnique ==
    pc = "done" =>
      /\ Ascending(Keys(mapping))
      /\ Range(Keys(mapping)) = Range(urls)
      /\ written = <<write_mapping(mapping)>>

\* a result out of order that repeats a URL was mapped
C4_UnsortedRepeatMapped ==
    pc = "done" /\ urls = <<U_da, U_bp, U_da>>

\* C5 as claimed: a gzip-compressed urlset as the source raises no
\* SitemapError and yields the entries of the uncompressed document.
C5_GzipTransparent ==
    (Fetched(source) /\ world[source].gzip) =>
      /\ err = "none"
      /\ Returned =>
            urls = FilterEntries(_iter_xml_text(world[source].root, T_loc),
                                 prefixes)

\* urllib.parse.urljoin for a reference with a scheme, an absolute path or
\* a relative path without dot segments
UrlJoin(base, ref) ==
    IF AfterScheme(ref) # ref THEN ref
    ELSE IF StartsWith(ref, <<"/">>)
    THEN SubSeq(base, 1, Len(base) - Len(AfterNetloc(AfterScheme(base))))
            \o ref
    ELSE SubSeq(base, 1,
                CHOOSE i \in 0..Len(base) :
                   /\ i = 0 \/ base[i] = "/"
                   /\ \A j \in (i + 1)..Len(base) : base[j] # "/") \o ref

\* C6 as claimed: every child location fetched is the loc text joined with
\* the location of the document that held it.
C6_ChildrenJoinedWithBase ==
    \A i \in 1..Len(expanded) :
       expanded[i].base # <<>> =>
          expanded[i].loc = UrlJoin(expanded[i].base, expanded[i].text)

Failing(l) == Fetched(l) /\ ErrorOf(world[l]) # "none"

\* C7: the file is written only by a run whose every document was read and
\* parsed and that returned a URL; a document that fails is the last one
\* fetched, main ends with its SitemapError and nothing is written; a run
\* that ends without a SitemapError returned a URL.
C7_WriteOnlyAfterFullSuccess ==
    /\ written # <<>> =>
          /\ pc = "done" /\ err = "none" /\ urls # <<>>
          /\ \A l \in DOMAIN world : ~Failing(l)
    /\ \A l \in DOMAIN world :
          Failing(l) =>
             /\ pc = "failed" /\ written = <<>>
             /\ err = ErrorOf(world[l])
             /\ expanded[Len(expanded)].loc = l
    /\ pc = "failed" => err # "none" /\ written = <<>>
    /\ pc = "done" => urls # <<>> /\ written # <<>>

\* a run failed on its third document after a urlset had yielded a URL
C7_FailedAfterAcceptedUrl ==
    /\ pc = "failed"
    /\ err = "fetch"
    /\ Len(expanded) = 3
    /\ \E l \in DOMAIN world :
          IsKind(l, "urlset") /\ U_da \in Listed(l)
    /\ written = <<>>

\* C8: in every step each visited set keeps its members, and no location
\* is handed to _parse_sitemap twice.
C8_VisitedGrowsOnce ==
    [][/\ \A r \in DOMAIN heap : r \in DOMAIN heap' /\ heap[r] \subseteq heap'[r]
       /\ NoRepeat([i \in 1..Len(expanded') |-> expanded'[i].loc])]_vars

\* two indexes referenced the same child, and the run has ended
C8_SharedChildSkipped ==
    /\ pc = "done"
    /\ IsKind(L_root, "index") /\ L_rel \in Listed(L_root)
    /\ IsKind(L_docs, "index") /\ L_rel \in Listed(L_docs)
    /\ IsKind(L_rel, "urlset")

====
